---- MODULE Spec2Model ----
(***************************************************************************)
(* PAN Encryption & Tokenization Service (src/main.py).                    *)
(*                                                                         *)
(* Strings are sequences of Unicode code points, byte strings sequences of *)
(* 0..255.  The FastAPI handlers encrypt, decrypt and get_metadata run on  *)
(* thread-pool workers that share the single sqlite3 connection db_conn:   *)
(* `rows` is the tokens table as statements on db_conn see it, and `dirty` *)
(* names the rows of it that db_conn.commit() has not yet made durable.    *)
(***************************************************************************)
EXTENDS Integers, Sequences, FiniteSets, TLC

VARIABLES
    rows,       \* the tokens table as db_conn sees it
    dirty,      \* tokens of the rows INSERTed on db_conn and not yet committed
    pc,         \* per worker: "idle", or "commit" inside save_token
    held,       \* per worker: the locals of encrypt while at "commit"
    resp,       \* the response of the request that completed last
    issued,     \* history: the <<token, pan>> pairs of the 200 responses of /encrypt
    written,    \* history: every row as save_token handed it to INSERT
    tampered    \* number of out-of-band writes to the database file so far

vars == <<rows, dirty, pc, held, resp, issued, written, tampered>>

----------------------------------------------------------------------------
(* Bounds of the model *)

MaxRecords == 2
NumTokens == 2
MaxTampers == 1

(* Program constants *)

PanMinLength == 12
PanMaxLength == 19
NonceBytes == 12
First6 == 6
Last4 == 4
Star == 42
MASTER_KEY == 77

ADMIN_API_KEY == "admin-placeholder"

----------------------------------------------------------------------------
(* Sequences *)

Rep(c, n) == [i \in 1..n |-> c]

Min(a, b) == IF a < b THEN a ELSE b
Max(a, b) == IF a > b THEN a ELSE b

\* s[:n]
Prefix(s, n) == SubSeq(s, 1, Min(n, Len(s)))
\* s[-n:]
Suffix(s, n) == SubSeq(s, Max(1, Len(s) - n + 1), Len(s))

----------------------------------------------------------------------------
(* str.isdigit, str.encode("utf-8"), bytes.decode("utf-8") *)

\* The characters str.isdigit accepts, among the code points below 2048:
\* ASCII 0-9, superscript two, three and one, the Arabic-Indic and the
\* extended Arabic-Indic digits, the NKo digits.
IsDigitChar(c) ==
    \/ c \in 48..57
    \/ c \in {178, 179, 185}
    \/ c \in 1632..1641
    \/ c \in 1776..1785
    \/ c \in 1984..1993

IsDigit(s) == Len(s) > 0 /\ \A i \in 1..Len(s) : IsDigitChar(s[i])

Utf8Char(c) ==
    IF c < 128 THEN <<c>>
    ELSE IF c < 2048 THEN <<192 + (c \div 64), 128 + (c % 64)>>
    ELSE IF c < 65536
         THEN <<224 + (c \div 4096), 128 + ((c \div 64) % 64), 128 + (c % 64)>>
         ELSE <<240 + (c \div 262144), 128 + ((c \div 4096) % 64),
                128 + ((c \div 64) % 64), 128 + (c % 64)>>

\* pan.encode("ascii", "replace")
Utf8Encode_AsciiReplace(s) == [i \in 1..Len(s) |-> IF s[i] < 128 THEN s[i] ELSE 63]

RECURSIVE Utf8Encode(_)
Utf8Encode(s) == IF s = <<>> THEN <<>> ELSE Utf8Char(Head(s)) \o Utf8Encode(Tail(s))

IsCont(b, i) == i <= Len(b) /\ b[i] \in 128..191

\* [ok |-> FALSE] stands for UnicodeDecodeError
RECURSIVE Utf8Decode(_)
Utf8Decode(b) ==
    IF b = <<>> THEN [ok |-> TRUE, str |-> <<>>]
    ELSE LET n == IF b[1] < 128 THEN 1
                  ELSE IF b[1] \in 194..223 /\ IsCont(b, 2) THEN 2
                  ELSE IF b[1] \in 224..239 /\ IsCont(b, 2) /\ IsCont(b, 3) THEN 3
                  ELSE IF b[1] \in 240..244 /\ IsCont(b, 2) /\ IsCont(b, 3) /\ IsCont(b, 4)
                       THEN 4 ELSE 0
             c == CASE n = 1 -> b[1]
                    [] n = 2 -> (b[1] - 192) * 64 + (b[2] - 128)
                    [] n = 3 -> (b[1] - 224) * 4096 + (b[2] - 128) * 64 + (b[3] - 128)
                    [] n = 4 -> (b[1] - 240) * 262144 + (b[2] - 128) * 4096
                                + (b[3] - 128) * 64 + (b[4] - 128)
                    [] OTHER -> 0
             wellFormed == CASE n = 1 -> TRUE
                             [] n = 2 -> TRUE
                             [] n = 3 -> c >= 2048 /\ c \notin 55296..57343
                             [] n = 4 -> c \in 65536..1114111
                             [] OTHER -> FALSE
         IN IF ~wellFormed THEN [ok |-> FALSE, str |-> <<>>]
            ELSE LET r == Utf8Decode(SubSeq(b, n + 1, Len(b)))
                 IN [ok |-> r.ok, str |-> IF r.ok THEN <<c>> \o r.str ELSE <<>>]

----------------------------------------------------------------------------
(* AESGCM(MASTER_KEY): a keystream cipher over the bytes and an            *)
(* authentication tag over key, nonce and encrypted bytes.  A ciphertext   *)
(* is the encrypted bytes followed by the tag.                             *)

KeyStream(key, nonce, i) ==
    (key + 3 * nonce[((i - 1) % Len(nonce)) + 1] + 7 * i) % 256

Tag(key, nonce, body) == <<key, nonce, body>>

AesGcmEncrypt(key, nonce, data) ==
    LET body == [i \in 1..Len(data) |-> (data[i] + KeyStream(key, nonce, i)) % 256]
    IN [body |-> body, tag |-> Tag(key, nonce, body)]

\* aes.decrypt without the tag comparison
AesGcmDecrypt_NoTagCheck(key, nonce, ct) ==
    [ok |-> TRUE,
     data |-> [i \in 1..Len(ct.body) |->
                   (ct.body[i] + 256 - KeyStream(key, nonce, i)) % 256]]

\* [ok |-> FALSE] stands for cryptography.exceptions.InvalidTag
AesGcmDecrypt(key, nonce, ct) ==
    IF ct.tag = Tag(key, nonce, ct.body)
    THEN [ok |-> TRUE,
          data |-> [i \in 1..Len(ct.body) |->
                        (ct.body[i] + 256 - KeyStream(key, nonce, i)) % 256]]
    ELSE [ok |-> FALSE, data |-> <<>>]

encrypt_pan_bytes(pan_bytes, nonce) == AesGcmEncrypt(MASTER_KEY, nonce, pan_bytes)

decrypt_pan_bytes_NoTagCheck(nonce, ciphertext) ==
    AesGcmDecrypt_NoTagCheck(MASTER_KEY, nonce, ciphertext)

decrypt_pan_bytes(nonce, ciphertext) == AesGcmDecrypt(MASTER_KEY, nonce, ciphertext)

----------------------------------------------------------------------------
(* mask_pan *)

mask_pan_ForgetsLast4(first6, last4, length) ==
    LET middle == length - Len(first6)
    IN first6 \o (IF middle > 0 THEN Rep(Star, middle) ELSE <<>>) \o last4

mask_pan(first6, last4, length) ==
    LET middle == length - Len(first6) - Len(last4)
    IN first6 \o (IF middle > 0 THEN Rep(Star, middle) ELSE <<>>) \o last4

----------------------------------------------------------------------------
(* Inputs *)

Workers == {"w1", "w2"}
Tokens == 1..NumTokens
ApiKeys == {ADMIN_API_KEY, "wrong-key"}
Now == "2024-01-01T00:00:00"

\* secrets.token_bytes(12): two of the 2^96 values
NonceA == [i \in 1..NonceBytes |-> (17 * i) % 256]
NonceB == [i \in 1..NonceBytes |-> (255 - i) % 256]
Nonces == {NonceA, NonceB}

\* "1234567890123..." of length n
Digits(n) == [i \in 1..n |-> 48 + (i % 10)]
\* s with character c at position i
With(s, i, c) == [s EXCEPT ![i] = c]

\* Two 16-digit PANs with the same first six and last four digits
\* (4111111111111111 and 4111110000001111), and three malformed ones.
Pans ==
    { <<52>> \o Rep(49, 15),
      <<52>> \o Rep(49, 5) \o Rep(48, 6) \o Rep(49, 4),
      With(Digits(PanMinLength), 7, 97),
      Digits(PanMinLength - 1),
      Digits(PanMaxLength + 1) }

\* Every length from one below the minimum to one above the maximum,
\* 4111111111111111, a
\* 12-character PAN ending in an Arabic-Indic digit, and strings with a
\* letter or a '*' at the first, a middle or the last position.
PansWide ==
    { Digits(n) : n \in (PanMinLength - 1)..(PanMaxLength + 1) }
    \cup { <<52>> \o Rep(49, 15), With(Digits(PanMinLength), PanMinLength, 1635) }
    \cup { With(Digits(n), 1, 97) : n \in {PanMinLength, PanMaxLength} }
    \cup { With(Digits(n), n, 97) : n \in {PanMinLength, PanMaxLength} }
    \cup { With(Digits(16), 7, Star),
           With(Digits(PanMinLength - 1), 1, 97),
           With(Digits(PanMaxLength + 1), 1, 97) }

\* One valid and one malformed PAN
PansFew == { <<52>> \o Rep(49, 15), With(Digits(PanMinLength), 7, 97) }

----------------------------------------------------------------------------
(* Requests and responses *)

Response(op, status, req, body, crypto, attempts) ==
    [seq |-> 1 - resp.seq, op |-> op, status |-> status, req |-> req,
     body |-> body, crypto |-> crypto, attempts |-> attempts]

Detail(text) == [detail |-> text]

NoLocals == [token |-> 0, pan |-> <<>>]

TokensOf(rs) == { r.token : r \in rs }

----------------------------------------------------------------------------
(* EncryptRequest and the digit check of encrypt *)

ValidationStatus_NoDigitCheck(pan) ==
    IF Len(pan) < PanMinLength \/ Len(pan) > PanMaxLength THEN 422 ELSE 200

\* 422: pydantic rejects the body; 400: the handler's isdigit check; 200: accepted
ValidationStatus(pan) ==
    IF Len(pan) < PanMinLength \/ Len(pan) > PanMaxLength THEN 422
    ELSE IF ~IsDigit(pan) THEN 400
    ELSE 200

----------------------------------------------------------------------------
(* save_token, get_token_record *)

\* INSERT OR REPLACE
SqlInsert_OrReplace(rs, row) ==
    [ok |-> TRUE, rows |-> { r \in rs : r.token # row.token } \cup {row}]

\* INSERT OR IGNORE
SqlInsert_OrIgnore(rs, row) ==
    [ok |-> TRUE, rows |-> IF row.token \in TokensOf(rs) THEN rs ELSE rs \cup {row}]

\* a table without the PRIMARY KEY
SqlInsert_NoPrimaryKey(rs, row) == [ok |-> TRUE, rows |-> rs \cup {row}]

\* INSERT INTO tokens: sqlite3.IntegrityError (ok |-> FALSE) when the
\* PRIMARY KEY token is already in the table
SqlInsert(rs, row) ==
    IF row.token \in TokensOf(rs)
    THEN [ok |-> FALSE, rows |-> rs]
    ELSE [ok |-> TRUE, rows |-> rs \cup {row}]

\* SELECT ... WHERE token = ?: the rows fetchone can return
get_token_record(token) == { r \in rows : r.token = token }

require_admin(api_key) == api_key = ADMIN_API_KEY

----------------------------------------------------------------------------
Init ==
    /\ rows = {}
    /\ dirty = {}
    /\ pc = [w \in Workers |-> "idle"]
    /\ held = [w \in Workers |-> NoLocals]
    /\ resp = [seq |-> 0, op |-> "none", status |-> 0, req |-> Detail("none"),
               body |-> Detail("none"), crypto |-> "none", attempts |-> 0]
    /\ issued = {}
    /\ written = {}
    /\ tampered = 0

\* POST /encrypt up to and including cur.execute(INSERT ...) of save_token
Encrypt(w, pan, nonce, token, now) ==
    /\ pc[w] = "idle"
    /\ Cardinality(rows) < MaxRecords
    /\ LET status == ValidationStatus(pan)
           ciphertext == encrypt_pan_bytes(Utf8Encode(pan), nonce)
           row == [token |-> token, ciphertext |-> ciphertext, nonce |-> nonce,
                   pan_length |-> Len(pan), first6 |-> Prefix(pan, First6),
                   last4 |-> Suffix(pan, Last4), created_at |-> now]
           ins == SqlInsert(rows, row)
       IN IF status = 422
          THEN /\ resp' = Response("encrypt", 422, [pan |-> pan],
                                   Detail("validation error"), "none", 0)
               /\ UNCHANGED <<rows, dirty, pc, held, issued, written, tampered>>
          ELSE IF status = 400
          THEN /\ resp' = Response("encrypt", 400, [pan |-> pan],
                                   Detail("PAN must contain only digits"), "none", 0)
               /\ UNCHANGED <<rows, dirty, pc, held, issued, written, tampered>>
          ELSE IF ~ins.ok
          THEN \* IntegrityError leaves the handler: no retry (req.token
               \* records the token the handler had generated)
               /\ resp' = Response("encrypt", 500, [pan |-> pan, token |-> token],
                                   Detail("Internal Server Error"), "encrypt", 1)
               /\ UNCHANGED <<rows, dirty, pc, held, issued, written, tampered>>
          ELSE /\ rows' = ins.rows
               /\ dirty' = dirty \cup {token}
               /\ written' = written \cup {row}
               /\ pc' = [pc EXCEPT ![w] = "commit"]
               /\ held' = [held EXCEPT ![w] = [token |-> token, pan |-> pan]]
               /\ UNCHANGED <<resp, issued, tampered>>

\* db_conn.commit() of save_token, mask_pan and the EncryptResponse
EncryptCommit(w) ==
    /\ pc[w] = "commit"
    /\ LET pan == held[w].pan
           masked == mask_pan(Prefix(pan, First6), Suffix(pan, Last4), Len(pan))
       IN /\ resp' = Response("encrypt", 200, [pan |-> pan],
                              [token |-> held[w].token, masked_pan |-> masked],
                              "encrypt", 1)
          /\ issued' = issued \cup {<<held[w].token, pan>>}
    /\ dirty' = {}
    /\ pc' = [pc EXCEPT ![w] = "idle"]
    /\ held' = [held EXCEPT ![w] = NoLocals]
    /\ UNCHANGED <<rows, written, tampered>>

\* POST /decrypt
Decrypt(w, token, api_key) ==
    /\ pc[w] = "idle"
    /\ LET req == [token |-> token, api_key |-> api_key]
           found == get_token_record(token)
       IN IF ~require_admin(api_key)
          THEN resp' = Response("decrypt", 401, req,
                                Detail("Invalid admin API key."), "none", 0)
          ELSE IF found = {}
          THEN resp' = Response("decrypt", 404, req, Detail("Token not found"), "none", 0)
          ELSE \E record \in found :
                 LET plain == decrypt_pan_bytes(record.nonce, record.ciphertext)
                     text == IF plain.ok THEN Utf8Decode(plain.data)
                             ELSE [ok |-> FALSE, str |-> <<>>]
                     masked == mask_pan(record.first6, record.last4, record.pan_length)
                 IN IF ~text.ok
                    THEN resp' = Response("decrypt", 500, req,
                                          Detail("Decryption failed"), "decrypt", 0)
                    ELSE resp' = Response("decrypt", 200, req,
                                          [pan |-> text.str, masked_pan |-> masked],
                                          "decrypt", 0)
    /\ UNCHANGED <<rows, dirty, pc, held, issued, written, tampered>>

MetadataBody_WithPan(token, record) ==
    [token |-> token,
     masked_pan |-> mask_pan(record.first6, record.last4, record.pan_length),
     created_at |-> record.created_at,
     pan |-> Utf8Decode(decrypt_pan_bytes(record.nonce, record.ciphertext).data).str]

MetadataBody(token, record) ==
    [token |-> token,
     masked_pan |-> mask_pan(record.first6, record.last4, record.pan_length),
     created_at |-> record.created_at]

\* GET /token/{token}
GetMetadata(w, token) ==
    /\ pc[w] = "idle"
    /\ LET req == [token |-> token]
           found == get_token_record(token)
       IN IF found = {}
          THEN resp' = Response("metadata", 404, req, Detail("Token not found"), "none", 0)
          ELSE \E record \in found :
                 resp' = Response("metadata", 200, req, MetadataBody(token, record),
                                  "none", 0)
    /\ UNCHANGED <<rows, dirty, pc, held, issued, written, tampered>>

----------------------------------------------------------------------------
(* A write to the DATABASE file that does not go through the service: one  *)
(* byte of a committed row's nonce or ciphertext is changed.               *)

Ends(s) == {1, Len(s)}

Altered(s, i, d) == [s EXCEPT ![i] = (s[i] + d) % 256]

Tamper(r, field, i, d) ==
    /\ tampered < MaxTampers
    /\ r \in rows
    /\ r.token \notin dirty
    /\ LET r2 == CASE field = "nonce" ->
                        [r EXCEPT !.nonce = Altered(r.nonce, i, d)]
                   [] field = "body" ->
                        [r EXCEPT !.ciphertext.body = Altered(r.ciphertext.body, i, d)]
                   [] field = "tag" ->
                        [r EXCEPT !.ciphertext.tag = <<>>]
       IN rows' = (rows \ {r}) \cup {r2}
    /\ tampered' = tampered + 1
    /\ UNCHANGED <<dirty, pc, held, resp, issued, written>>

TamperAny ==
    \E r \in rows :
        \/ \E i \in Ends(r.nonce), d \in {1, 255} : Tamper(r, "nonce", i, d)
        \/ \E i \in Ends(r.ciphertext.body), d \in {1, 255} : Tamper(r, "body", i, d)
        \/ Tamper(r, "tag", 1, 1)

----------------------------------------------------------------------------
(* Specifications *)

Step(workers, pans, nonces, tokens) ==
    \/ \E w \in workers, pan \in pans, nonce \in nonces, token \in tokens :
          Encrypt(w, pan, nonce, token, Now)
    \/ \E w \in workers : EncryptCommit(w)
    \/ \E w \in workers, token \in tokens, api_key \in ApiKeys : Decrypt(w, token, api_key)
    \/ \E w \in workers, token \in tokens : GetMetadata(w, token)

\* concurrent workers
Next == Step(Workers, Pans, Nonces, Tokens)

Spec == Init /\ [][Next]_vars

\* one worker, the wide range of request bodies, two tokens
NextInputs == Step({"w1"}, PansWide, {NonceA}, {1, 2})

SpecInputs == Init /\ [][NextInputs]_vars

\* one worker, with out-of-band writes to the database file
NextTamper ==
    \/ Step({"w1"}, PansFew, {NonceA}, Tokens)
    \/ TamperAny

SpecTamper == Init /\ [][NextTamper]_vars
----------------------------------------------------------------------------
(* Properties *)

IssuedTokens == { i[1] : i \in issued }

Responded == resp'.seq # resp.seq

\* a string Tokenize must refuse: a character str.isdigit does not accept,
\* or a length outside 12..19
InvalidPan(pan) ==
    \/ Len(pan) < PanMinLength
    \/ Len(pan) > PanMaxLength
    \/ \E i \in 1..Len(pan) : ~IsDigitChar(pan[i])

\* C1: a privileged Resolve of a token that Tokenize(p) returned succeeds
\* and returns pan = p, whatever Tokenize and Resolve calls came between.
C1_RoundTrip ==
    \A i \in issued :
        (resp.op = "decrypt" /\ resp.req.api_key = ADMIN_API_KEY /\ resp.req.token = i[1])
            => (resp.status = 200 /\ resp.body.pan = i[2])

\* a PAN with a two-byte character came back, after two PANs were tokenized
C1_Witness ==
    /\ resp.op = "decrypt" /\ resp.status = 200
    /\ <<resp.req.token, resp.body.pan>> \in issued
    /\ Len(Utf8Encode(resp.body.pan)) > Len(resp.body.pan)
    /\ Cardinality(issued) = 2

\* C2: the metadata path answers with the masked PAN only (no pan field, no
\* decryption, a masked_pan that is not the PAN), and a response carries a
\* pan only on /decrypt with the admin key.
C2_UnprivilegedNeverPlain ==
    /\ resp.op = "metadata" =>
          /\ "pan" \notin DOMAIN resp.body
          /\ resp.crypto = "none"
          /\ resp.status = 200 =>
                /\ DOMAIN resp.body = {"token", "masked_pan", "created_at"}
                /\ \A i \in issued :
                      i[1] = resp.req.token =>
                          /\ resp.body.masked_pan # i[2]
                          /\ resp.body.masked_pan =
                                Prefix(i[2], 6) \o Rep(42, Len(i[2]) - 10) \o Suffix(i[2], 4)
    /\ "pan" \in DOMAIN resp.body =>
          /\ resp.op = "decrypt"
          /\ resp.req.api_key = ADMIN_API_KEY

C2_Witness ==
    /\ resp.op = "metadata" /\ resp.status = 200
    /\ resp.req.token \in IssuedTokens

\* C3: the table never holds two rows with one token, and no Tokenize
\* returns a token that an earlier Tokenize returned.
C3_TokenUnique ==
    /\ [](\A r1 \in rows, r2 \in rows : r1.token = r2.token => r1 = r2)
    /\ [][\A w \in Workers :
            (pc[w] = "commit" /\ pc'[w] = "idle") => held[w].token \notin IssuedTokens]_vars

\* the same PAN was tokenized twice, under two tokens
C3_Witness ==
    \E i \in issued, j \in issued : i[1] # j[1] /\ i[2] = j[2]

AlteredRow(r) ==
    \A w \in written : w.token = r.token => (w.nonce # r.nonce \/ w.ciphertext # r.ciphertext)

\* C5: a privileged Resolve of a record whose nonce or ciphertext is not
\* what save_token wrote fails with the generic "Decryption failed".
C5_TamperDetected ==
    [][(Responded /\ resp'.op = "decrypt" /\ resp'.req.api_key = ADMIN_API_KEY) =>
          \A r \in rows :
              (r.token = resp'.req.token /\ AlteredRow(r)) =>
                  /\ resp'.status = 500
                  /\ DOMAIN resp'.body = {"detail"}
                  /\ resp'.body.detail = "Decryption failed"]_vars

C5_Witness ==
    /\ resp.op = "decrypt" /\ resp.status = 500
    /\ \E r \in rows : r.token = resp.req.token /\ AlteredRow(r)

\* C6: the masked PAN of Tokenize(p) has the length of p, its first six and
\* last four characters, and '*' everywhere between.
C6_MaskShape ==
    (resp.op = "encrypt" /\ resp.status = 200) =>
        LET p == resp.req.pan
            m == resp.body.masked_pan
        IN /\ Len(m) = Len(p)
           /\ \A i \in 1..Len(p) :
                 m[i] = IF i <= 6 \/ i > Len(p) - 4 THEN p[i] ELSE 42

\* 4111111111111111 gave 411111******1111
C6_Witness ==
    /\ resp.op = "encrypt" /\ resp.status = 200
    /\ resp.req.pan = <<52, 49, 49, 49, 49, 49, 49, 49, 49, 49, 49, 49, 49, 49, 49, 49>>
    /\ resp.body.masked_pan = <<52, 49, 49, 49, 49, 49, 42, 42, 42, 42, 42, 42, 49, 49, 49, 49>>

\* C7: no two rows of the table have the same nonce.
C7_NonceUnique ==
    \A r1 \in rows, r2 \in rows : r1.nonce = r2.nonce => r1 = r2

\* C8: a lookup returns a row only if its INSERT has been committed, and a
\* lookup of a token that Tokenize has returned finds its row.
C8_NoDirtyRead ==
    [][(Responded /\ resp'.op \in {"decrypt", "metadata"}) =>
          /\ resp'.status = 200 => resp'.req.token \notin dirty
          /\ (resp'.op = "metadata" /\ resp'.req.token \in IssuedTokens) =>
                resp'.status = 200]_vars

\* C9 as claimed: a Tokenize that fails on a duplicate token has made more
\* than one insert attempt.
C9_RetriesOnCollision ==
    (resp.op = "encrypt" /\ resp.status = 500) => resp.attempts > 1

\* C9 as amended: a Tokenize whose token is already in the table fails at
\* once, after its single insert attempt, with the table unchanged; one
\* whose token is new goes on to commit.
C9_CollisionFailsAtOnce ==
    [][/\ (Responded /\ resp'.op = "encrypt" /\ resp'.status = 500) =>
            /\ resp'.req.token \in TokensOf(rows)
            /\ resp'.attempts = 1
            /\ resp'.body.detail = "Internal Server Error"
            /\ UNCHANGED <<rows, dirty, written, issued>>
       /\ \A w \in Workers :
            (pc[w] = "idle" /\ pc'[w] = "commit") => held'[w].token \notin TokensOf(rows)]_vars

C9_Witness ==
    /\ resp.op = "encrypt" /\ resp.status = 500 /\ resp.attempts = 1
    /\ resp.req.token \in TokensOf(rows)

\* C10: a row, once db_conn sees it, stays in the table with every field
\* as written; Resolve changes nothing, and a colliding Insert fails and
\* changes nothing.
C10_Immutable ==
    [][/\ \A r \in rows : r \in rows' /\ \A r2 \in rows' : r2.token = r.token => r2 = r
       /\ (Responded /\ resp'.op \in {"decrypt", "metadata"}) => UNCHANGED <<rows, dirty>>
       /\ (Responded /\ resp'.op = "encrypt" /\ resp'.status # 200) =>
             UNCHANGED <<rows, dirty>>]_vars

\* two committed rows, one of them read back
C10_Witness ==
    /\ Cardinality(rows) = 2 /\ dirty = {}
    /\ resp.op = "decrypt" /\ resp.status = 200

====
